---- MODULE Spec2Model ----
(***************************************************************************)
(* Model of the I2C IR remote control simulator (IR_Remote_Sim.ino, the    *)
(* I2C slave / responder) together with the frames its test master         *)
(* (IR_Remote_Sim_Test.ino) writes to it.                                  *)
(*                                                                         *)
(* The responder has two actors: loop(), run over and over by the Arduino  *)
(* core, and receiveEvent(), which the Wire library calls from the TWI     *)
(* interrupt.  The interrupt may be taken between any two statements of    *)
(* loop(); loop() never runs inside receiveEvent().  loop() is therefore   *)
(* modelled one statement per action (program counter pc, named after the  *)
(* source line), receiveEvent() as one atomic action.  An interrupt taken   *)
(* inside an encoder call or a delay acts like one taken right after it,   *)
(* since neither touches the variables receiveEvent() writes.              *)
(*                                                                         *)
(* uiDataArrayPointer is a 16 bit volatile that the 8 bit AVR reads in two *)
(* steps; its value never exceeds MAX_SEQUENCES - 1, so its high byte is   *)
(* always 0 and a read torn by the interrupt yields the value before or    *)
(* after it, which the interleaving of the actions covers.                 *)
(*                                                                         *)
(* A transfer is handed to receiveEvent() whole: howMany bytes are in the  *)
(* Wire buffer when the handler starts, each Wire.read() takes one, and    *)
(* rxAvailable is what the handler leaves there.  The test master's loop() *)
(* is modelled one test or transfer per action (program counter mpc); a    *)
(* transfer and the responder's handling of it are one step.               *)
(***************************************************************************)
EXTENDS Integers, Sequences, FiniteSets, TLC

\* ------------------------------------------------------------------------
\* Program constants

MAX_SEQUENCES == 20

MAX_BUFFER == 12

ENCODING_TYPE_RC6 == 0

ENCODING_TYPE_SONY == 1

ENCODING_TYPE_SAMSUNG == 2

ENCODING_TYPE_NEC == 3

ENCODING_TYPE_LG == 4

\* ------------------------------------------------------------------------
\* Bounds of the model

\* Transfers the master makes in the general specification.
MaxRecv == 4

\* Transfers the master makes when its first frame has arbitrary repeat
\* counts, and the largest such counts.
MaxRecvRep == 2

MaxPulseTrainRepeats == 3

MaxButtonRepeats == 2

\* Falling edges the two buttons of the test master have, in all.
MaxPress == 3

\* Transfers of a length other than MAX_BUFFER a master makes.
MaxBad == 2

\* Transfers beyond MAX_SEQUENCES the master makes when it fills the queue.
MaxOver == 2

\* ------------------------------------------------------------------------
\* State

VARIABLES
  uDataArray,          \* [0..MAX_SEQUENCES-1 -> 12 bytes]: the frame slots
  uiDataArrayPointer,  \* write cursor (tail)
  uiRegisterPointer,   \* byte cursor inside receiveEvent
  bFreshDataFlag,      \* batch-ready flag raised by receiveEvent
  current_state,       \* "eIDLE" | "eBUSY"
  iDataArrayIndex,     \* playback frame cursor
  iButtonRepeats,      \* playback button repeat cursor
  iPulseTrainRepeats,  \* playback pulse train repeat cursor
  pin,                 \* READY_FOR_DATA_PIN: "LOW" (busy) | "HIGH" (ready)
  pc,                  \* the statement of loop() to execute next
  log,                 \* observer: encoder calls and delays of the current Busy period
  rcvd,                \* observer: the 12-byte transfers received so far
  resetAt,             \* observer: Len(rcvd) when loop() last reset the queue
  howMany,             \* the argument of the last call of receiveEvent
  rxAvailable,         \* bytes of that transfer left unread in the Wire buffer
  nBad,                \* observer: calls of receiveEvent with howMany # MAX_BUFFER
  sent,                \* observer: the register allocations the master encoded
  mpc,                 \* the statement of the master's loop() to execute next
  mBatchAt,            \* observer: Len(rcvd) when the master began its last batch
  nPress               \* observer: falling edges the master's buttons have had

vars == <<uDataArray, uiDataArrayPointer, uiRegisterPointer, bFreshDataFlag,
          current_state, iDataArrayIndex, iButtonRepeats, iPulseTrainRepeats,
          pin, pc, log, rcvd, resetAt, howMany, rxAvailable, nBad, sent,
          mpc, mBatchAt, nPress>>

shared == <<uDataArray, uiDataArrayPointer, uiRegisterPointer, bFreshDataFlag>>

cursors == <<iDataArrayIndex, iButtonRepeats, iPulseTrainRepeats>>

observers == <<log, rcvd, resetAt, nBad, sent>>

wire == <<howMany, rxAvailable>>

master == <<mpc, mBatchAt, nPress>>

\* ------------------------------------------------------------------------
\* Frame codec: the packed struct registerAllocationType overlaid, in a
\* union, on an array of MAX_BUFFER bytes (little-endian AVR).

Byte(n, k) == (n \div (256 ^ k)) % 256

\* The bytes of a register allocation, as the master's Wire.write sends them.
Encode(ra) ==
  << ra.bEncoding,
     Byte(ra.ui32Data, 0), Byte(ra.ui32Data, 1),
     Byte(ra.ui32Data, 2), Byte(ra.ui32Data, 3),
     ra.bNumberOfBitsInTheData,
     ra.bPulseTrainRepeats,
     ra.bDelayBetweenPulseTrainRepeats,
     ra.bButtonRepeats,
     Byte(ra.ui16DelayBetweenButtonRepeats, 0),
     Byte(ra.ui16DelayBetweenButtonRepeats, 1),
     ra.bFreshData >>

\* The fields of a slot, read through the .ra member (da[x] is b[x + 1]).
bEncoding(b) == b[1]

ui32Data(b) == b[2] + 256 * b[3] + 65536 * b[4] + 16777216 * b[5]

bNumberOfBitsInTheData(b) == b[6]

bPulseTrainRepeats(b) == b[7]

bDelayBetweenPulseTrainRepeats(b) == b[8]

bButtonRepeats(b) == b[9]

\* Mutant: the two bytes of the 16-bit field are read in big-endian order.
ui16DelayBetweenButtonRepeats_Mut(b) == b[11] + 256 * b[10]

ui16DelayBetweenButtonRepeats(b) == b[10] + 256 * b[11]

bFreshData(b) == b[12]

Decode(b) ==
  [ bEncoding |-> bEncoding(b),
    ui32Data |-> ui32Data(b),
    bNumberOfBitsInTheData |-> bNumberOfBitsInTheData(b),
    bPulseTrainRepeats |-> bPulseTrainRepeats(b),
    bDelayBetweenPulseTrainRepeats |-> bDelayBetweenPulseTrainRepeats(b),
    bButtonRepeats |-> bButtonRepeats(b),
    ui16DelayBetweenButtonRepeats |-> ui16DelayBetweenButtonRepeats(b),
    bFreshData |-> bFreshData(b) ]

ZeroFrame == [x \in 1..MAX_BUFFER |-> 0]

\* ------------------------------------------------------------------------
\* The frames of the test master (setup() of IR_Remote_Sim_Test.ino)

\* Sky - 1
uData1(fresh) ==
  [ bEncoding |-> ENCODING_TYPE_RC6, ui32Data |-> 12606465,   \* 0xC05C01
    bNumberOfBitsInTheData |-> 24, bPulseTrainRepeats |-> 2,
    bDelayBetweenPulseTrainRepeats |-> 124, bButtonRepeats |-> 1,
    ui16DelayBetweenButtonRepeats |-> 400, bFreshData |-> fresh ]

\* Sky - 0
uData2(fresh) ==
  [ bEncoding |-> ENCODING_TYPE_RC6, ui32Data |-> 12606464,   \* 0xC05C00
    bNumberOfBitsInTheData |-> 24, bPulseTrainRepeats |-> 2,
    bDelayBetweenPulseTrainRepeats |-> 124, bButtonRepeats |-> 1,
    ui16DelayBetweenButtonRepeats |-> 400, bFreshData |-> fresh ]

\* Sony AV - Mute
uData3 ==
  [ bEncoding |-> ENCODING_TYPE_SONY, ui32Data |-> 5132,      \* 0x140C
    bNumberOfBitsInTheData |-> 15, bPulseTrainRepeats |-> 4,
    bDelayBetweenPulseTrainRepeats |-> 22, bButtonRepeats |-> 1,
    ui16DelayBetweenButtonRepeats |-> 0, bFreshData |-> 255 ]

\* ------------------------------------------------------------------------
\* setup()

Init ==
  /\ uDataArray = [y \in 0..(MAX_SEQUENCES - 1) |-> ZeroFrame]
  /\ uiDataArrayPointer = 0
  /\ uiRegisterPointer = 0
  /\ bFreshDataFlag = FALSE
  /\ current_state = "eIDLE"
  /\ iDataArrayIndex = 0
  /\ iButtonRepeats = 0
  /\ iPulseTrainRepeats = 0
  /\ pin = "HIGH"
  /\ pc = "l198"
  /\ log = << >>
  /\ rcvd = << >>
  /\ resetAt = 0
  /\ howMany = 0
  /\ rxAvailable = 0
  /\ nBad = 0
  /\ sent = << >>
  /\ mpc = "m218"
  /\ mBatchAt = 0
  /\ nPress = 0

\* ------------------------------------------------------------------------
\* receiveEvent(howMany), bytes the transfer and howMany its length.
\* For howMany = MAX_BUFFER the for loop copies the bytes into the slot at
\* uiDataArrayPointer; then the flag is raised on a nonzero bFreshData and
\* the pointer advances unless it is already MAX_SEQUENCES - 1.  For any
\* other howMany the handler only calls Wire.read(), howMany - 1 times.

\* Mutant: the pointer wraps to the first slot instead of stopping.
AdvancePointer_Mut(p) == (p + 1) % MAX_SEQUENCES

\* Mutant: the pointer stops one slot later, past the last slot.
AdvancePointer_OffByOne(p) == IF p < MAX_SEQUENCES THEN p + 1 ELSE p

AdvancePointer(p) == IF p < MAX_SEQUENCES - 1 THEN p + 1 ELSE p

RaiseFlag(flag, b) == IF bFreshData(b) # 0 THEN TRUE ELSE flag

\* Mutant: the length of the transfer is not compared with MAX_BUFFER.
WellFormed_Mut(n) == n > 0

WellFormed(n) == n > 0 /\ n = MAX_BUFFER

\* The slot after the for loop has written the bytes into it one by one.
Store(slot, bytes) ==
  [x \in 1..MAX_BUFFER |-> IF x <= Len(bytes) THEN bytes[x] ELSE slot[x]]

\* The number of calls of Wire.read() the handler makes.
BytesRead(n) ==
  IF WellFormed(n) THEN n ELSE IF n - 1 > 0 THEN n - 1 ELSE 0

receiveEvent(bytes) ==
  /\ howMany' = Len(bytes)
  /\ rxAvailable' = Len(bytes) - BytesRead(Len(bytes))
  /\ IF WellFormed(Len(bytes))
       THEN /\ uDataArray' =
                 [uDataArray EXCEPT ![uiDataArrayPointer] = Store(@, bytes)]
            /\ uiRegisterPointer' = Len(bytes)
            /\ bFreshDataFlag' =
                 RaiseFlag(bFreshDataFlag, uDataArray'[uiDataArrayPointer])
            /\ uiDataArrayPointer' = AdvancePointer(uiDataArrayPointer)
       ELSE UNCHANGED shared
  /\ UNCHANGED <<current_state, cursors, pin, pc, log, resetAt>>

\* ------------------------------------------------------------------------
\* loop(), one statement per action

\* Mutant: the entry played is always the first one.
Slot_Mut == uDataArray[0]

Slot == uDataArray[iDataArrayIndex]

\* Mutant: playback starts whenever the engine is Idle and the queue is
\* not empty, whether or not the flag is raised.
L198_Mut ==
  /\ pc = "l198"
  /\ pc' = IF uiDataArrayPointer > 0 /\ current_state = "eIDLE" THEN "l200" ELSE "l206"
  /\ UNCHANGED <<shared, current_state, cursors, pin, observers, wire, master>>

\* line 198: if ((bFreshDataFlag) && (current_state == eIDLE))
L198 ==
  /\ pc = "l198"
  /\ pc' = IF bFreshDataFlag /\ current_state = "eIDLE" THEN "l200" ELSE "l206"
  /\ UNCHANGED <<shared, current_state, cursors, pin, observers, wire, master>>

\* Mutant: the pin is not driven low on the way to Busy.
L200_Mut ==
  /\ pc = "l200"
  /\ pc' = "l201"
  /\ UNCHANGED <<shared, current_state, cursors, pin, observers, wire, master>>

\* line 200: digitalWrite(READY_FOR_DATA_PIN,LOW)
L200 ==
  /\ pc = "l200"
  /\ pin' = "LOW"
  /\ pc' = "l201"
  /\ UNCHANGED <<shared, current_state, cursors, observers, wire, master>>

\* line 201: current_state = eBUSY
L201 ==
  /\ pc = "l201"
  /\ current_state' = "eBUSY"
  /\ log' = << >>
  /\ pc' = "l202"
  /\ UNCHANGED <<shared, cursors, pin, rcvd, resetAt, nBad, sent, wire, master>>

\* line 202: bFreshDataFlag = false
L202 ==
  /\ pc = "l202"
  /\ bFreshDataFlag' = FALSE
  /\ pc' = "l203"
  /\ UNCHANGED <<uDataArray, uiDataArrayPointer, uiRegisterPointer,
                 current_state, cursors, pin, observers, wire, master>>

\* line 203: iDataArrayIndex = 0
L203 ==
  /\ pc = "l203"
  /\ iDataArrayIndex' = 0
  /\ pc' = "l206"
  /\ UNCHANGED <<shared, current_state, iButtonRepeats, iPulseTrainRepeats,
                 pin, observers, wire, master>>

\* line 206: if (current_state == eBUSY)
L206 ==
  /\ pc = "l206"
  /\ pc' = IF current_state = "eBUSY" THEN "l208" ELSE "l241"
  /\ UNCHANGED <<shared, current_state, cursors, pin, observers, wire, master>>

\* lines 208-209: while (iDataArrayIndex < uiDataArrayPointer) { iButtonRepeats = 0;
L208 ==
  /\ pc = "l208"
  /\ IF iDataArrayIndex < uiDataArrayPointer
       THEN /\ iButtonRepeats' = 0
            /\ pc' = "l210"
       ELSE /\ pc' = "l241"
            /\ UNCHANGED iButtonRepeats
  /\ UNCHANGED <<shared, current_state, iDataArrayIndex, iPulseTrainRepeats,
                 pin, observers, wire, master>>

\* Mutant: the pulse train cursor is not zeroed for each button repeat.
L210_Mut ==
  /\ pc = "l210"
  /\ pc' = IF iButtonRepeats < bButtonRepeats(Slot) THEN "l212" ELSE "l237"
  /\ UNCHANGED <<shared, current_state, cursors, pin, observers, wire, master>>

\* lines 210-211: while (iButtonRepeats < bButtonRepeats) { iPulseTrainRepeats = 0;
L210 ==
  /\ pc = "l210"
  /\ IF iButtonRepeats < bButtonRepeats(Slot)
       THEN /\ iPulseTrainRepeats' = 0
            /\ pc' = "l212"
       ELSE /\ pc' = "l237"
            /\ UNCHANGED iPulseTrainRepeats
  /\ UNCHANGED <<shared, current_state, iDataArrayIndex, iButtonRepeats,
                 pin, observers, wire, master>>

\* Mutant: <= for <, one pulse train too many.
L212_Mut ==
  /\ pc = "l212"
  /\ pc' = IF iPulseTrainRepeats <= bPulseTrainRepeats(Slot) THEN "l213" ELSE "l233"
  /\ UNCHANGED <<shared, current_state, cursors, pin, observers, wire, master>>

\* line 212: while (iPulseTrainRepeats < bPulseTrainRepeats)
L212 ==
  /\ pc = "l212"
  /\ pc' = IF iPulseTrainRepeats < bPulseTrainRepeats(Slot) THEN "l213" ELSE "l233"
  /\ UNCHANGED <<shared, current_state, cursors, pin, observers, wire, master>>

\* lines 213-229: the switch on bEncoding: one irsend call for the five
\* known encodings, no call for any other value.
KnownEncodings ==
  { ENCODING_TYPE_RC6, ENCODING_TYPE_SONY, ENCODING_TYPE_SAMSUNG,
    ENCODING_TYPE_NEC, ENCODING_TYPE_LG }

SendEvent(i, b) ==
  [ op |-> "send", idx |-> i, enc |-> bEncoding(b), data |-> ui32Data(b),
    bits |-> bNumberOfBitsInTheData(b) ]

DelayEvent(i, ms) ==
  [ op |-> "delay", idx |-> i, enc |-> 0, data |-> ms, bits |-> 0 ]

\* Mutant: the switch has a default case that calls an encoder.
Dispatch_Mut(l, i, b) == Append(l, SendEvent(i, b))

Dispatch(l, i, b) ==
  IF bEncoding(b) \in KnownEncodings THEN Append(l, SendEvent(i, b)) ELSE l

L213 ==
  /\ pc = "l213"
  /\ log' = Dispatch(log, iDataArrayIndex, Slot)
  /\ pc' = "l230"
  /\ UNCHANGED <<shared, current_state, cursors, pin, rcvd, resetAt, nBad, sent, wire, master>>

\* lines 230-231: delay(bDelayBetweenPulseTrainRepeats); iPulseTrainRepeats++;
L230 ==
  /\ pc = "l230"
  /\ log' = Append(log, DelayEvent(iDataArrayIndex, bDelayBetweenPulseTrainRepeats(Slot)))
  /\ iPulseTrainRepeats' = iPulseTrainRepeats + 1
  /\ pc' = "l212"
  /\ UNCHANGED <<shared, current_state, iDataArrayIndex, iButtonRepeats, pin,
                 rcvd, resetAt, nBad, sent, wire, master>>

\* Mutant: the delay between button repeats is made even when it is zero.
ButtonDelay_Mut(l, i, b) ==
  Append(l, DelayEvent(i, ui16DelayBetweenButtonRepeats(b)))

\* lines 233-235: if (ui16DelayBetweenButtonRepeats > 0) delay(...); iButtonRepeats++;
ButtonDelay(l, i, b) ==
  IF ui16DelayBetweenButtonRepeats(b) > 0
    THEN Append(l, DelayEvent(i, ui16DelayBetweenButtonRepeats(b)))
    ELSE l

L233 ==
  /\ pc = "l233"
  /\ log' = ButtonDelay(log, iDataArrayIndex, Slot)
  /\ iButtonRepeats' = iButtonRepeats + 1
  /\ pc' = "l210"
  /\ UNCHANGED <<shared, current_state, iDataArrayIndex, iPulseTrainRepeats, pin,
                 rcvd, resetAt, nBad, sent, wire, master>>

\* line 237: iDataArrayIndex++
L237 ==
  /\ pc = "l237"
  /\ iDataArrayIndex' = iDataArrayIndex + 1
  /\ pc' = "l208"
  /\ UNCHANGED <<shared, current_state, iButtonRepeats, iPulseTrainRepeats,
                 pin, observers, wire, master>>

\* Mutant: > for >=, the end of the batch is not seen when the cursor has
\* just reached the pointer.
L241_Mut ==
  /\ pc = "l241"
  /\ pc' = IF iDataArrayIndex > uiDataArrayPointer /\ current_state = "eBUSY"
             THEN "l243" ELSE "l198"
  /\ UNCHANGED <<shared, current_state, cursors, pin, observers, wire, master>>

\* line 241: if ((iDataArrayIndex >= uiDataArrayPointer) && (current_state == eBUSY))
\* When the test fails loop() returns and is called again.
L241 ==
  /\ pc = "l241"
  /\ pc' = IF iDataArrayIndex >= uiDataArrayPointer /\ current_state = "eBUSY"
             THEN "l243" ELSE "l198"
  /\ UNCHANGED <<shared, current_state, cursors, pin, observers, wire, master>>

\* line 243: current_state = eIDLE
L243 ==
  /\ pc = "l243"
  /\ current_state' = "eIDLE"
  /\ pc' = "l244"
  /\ UNCHANGED <<shared, cursors, pin, observers, wire, master>>

\* line 244: uiDataArrayPointer = 0
L244 ==
  /\ pc = "l244"
  /\ uiDataArrayPointer' = 0
  /\ resetAt' = Len(rcvd)
  /\ pc' = "l245"
  /\ UNCHANGED <<uDataArray, uiRegisterPointer, bFreshDataFlag, current_state,
                 cursors, pin, log, rcvd, nBad, sent, wire, master>>

\* line 245: digitalWrite(READY_FOR_DATA_PIN,HIGH); loop() returns.
L245 ==
  /\ pc = "l245"
  /\ pin' = "HIGH"
  /\ pc' = "l198"
  /\ UNCHANGED <<shared, current_state, cursors, observers, wire, master>>

Loop ==
  \/ L198 \/ L200 \/ L201 \/ L202 \/ L203 \/ L206 \/ L208 \/ L210 \/ L212
  \/ L213 \/ L230 \/ L233 \/ L237 \/ L241 \/ L243 \/ L244 \/ L245

\* ------------------------------------------------------------------------
\* The master: one 12-byte transfer per frame, at any moment.

Transfer(ra) ==
  /\ receiveEvent(Encode(ra))
  /\ rcvd' = Append(rcvd, Encode(ra))
  /\ sent' = Append(sent, ra)
  /\ UNCHANGED nBad

\* The master writes frames of S while fewer than n were written.
RecvFrom(S, n) ==
  /\ Len(rcvd) < n
  /\ \E ra \in S : Transfer(ra)
  /\ UNCHANGED master

\* The general specification: the four frames the test master writes, in
\* any order and at any moment.
Frames == { uData1(0), uData2(0), uData1(255), uData3 }

Recv == RecvFrom(Frames, MaxRecv)

Next == Loop \/ Recv

Spec == Init /\ [][Next]_vars

\* The end-to-end scenario: the master writes only its first frame,
\* uncommitted or committed; loop() is called again and again and each of
\* its statements terminates.
RecvE2E == RecvFrom({ uData1(0), uData1(255) }, MaxRecv)

NextE2E == Loop \/ RecvE2E

SpecE2E == Init /\ [][NextE2E]_vars /\ WF_vars(Loop)

\* Filling the queue: the master writes frames that differ in their code
\* word (the k-th frame carries k), one pulse train and one button press
\* each; at most one of them, any one, has bFreshData = 0xFF.
FillFrame(k, fresh) ==
  [ bEncoding |-> ENCODING_TYPE_RC6, ui32Data |-> k,
    bNumberOfBitsInTheData |-> 24, bPulseTrainRepeats |-> 1,
    bDelayBetweenPulseTrainRepeats |-> 124, bButtonRepeats |-> 1,
    ui16DelayBetweenButtonRepeats |-> 0, bFreshData |-> fresh ]

RecvFill ==
  /\ Len(rcvd) < MAX_SEQUENCES + MaxOver
  /\ \E fresh \in {0, 255} :
       /\ fresh # 0 => \A i \in DOMAIN rcvd : bFreshData(rcvd[i]) = 0
       /\ Transfer(FillFrame(Len(rcvd) + 1, fresh))
  /\ UNCHANGED master

NextFill == Loop \/ RecvFill

SpecFill == Init /\ [][NextFill]_vars

\* Liveness: the master may write a committed frame at any moment, any
\* number of times (these transfers are not recorded in rcvd); loop() is
\* called again and again and each of its statements, encoder calls and
\* delays included, terminates.
RecvLive ==
  /\ receiveEvent(Encode(FillFrame(1, 255)))
  /\ UNCHANGED <<rcvd, sent, nBad, master>>

NextLive == Loop \/ RecvLive

SpecLive == Init /\ [][NextLive]_vars /\ WF_vars(Loop)

\* Repeat counts: the first frame the master writes has any repeat counts
\* up to the bounds, a known or an unknown encoding, with or without a
\* button repeat delay, committed or not; the frames after it are the
\* master's first frame, uncommitted or committed.
UnknownEncoding == ENCODING_TYPE_LG + 1

RepFrames ==
  { [ bEncoding |-> e, ui32Data |-> 12606465,
      bNumberOfBitsInTheData |-> 24, bPulseTrainRepeats |-> p,
      bDelayBetweenPulseTrainRepeats |-> 124, bButtonRepeats |-> b,
      ui16DelayBetweenButtonRepeats |-> d, bFreshData |-> f ] :
    e \in {ENCODING_TYPE_NEC, UnknownEncoding},
    p \in 0..MaxPulseTrainRepeats, b \in 0..MaxButtonRepeats,
    d \in {0, 400}, f \in {0, 255} }

RecvRep ==
  \/ Len(rcvd) = 0 /\ RecvFrom(RepFrames, MaxRecvRep)
  \/ Len(rcvd) > 0 /\ RecvFrom({ uData1(0), uData1(255) }, MaxRecvRep)

NextRep == Loop \/ RecvRep

SpecRep == Init /\ [][NextRep]_vars

\* ------------------------------------------------------------------------
\* The same, with loop() called again and again and each of its statements,
\* encoder calls and delays included, terminating.
SpecRepFair == Init /\ [][NextRep]_vars /\ WF_vars(Loop)

\* The codec: the first frame the master writes is its first frame,
\* committed, with one field replaced by a value from the ends or the
\* middle of the field's range (code words up to 2^31 - 1, the largest
\* integer of the model checker); the frames after it are the master's
\* first frame, uncommitted or committed.
FieldValues ==
  [ bEncoding |-> { 0, 4, 5, 255 },
    ui32Data |-> { 0, 1, 255, 256, 65535, 65536, 16777215, 16777216,
                   2147483647 },
    bNumberOfBitsInTheData |-> { 0, 32, 255 },
    bPulseTrainRepeats |-> { 0, 3 },
    bDelayBetweenPulseTrainRepeats |-> { 0, 255 },
    bButtonRepeats |-> { 0, 2 },
    ui16DelayBetweenButtonRepeats |-> { 0, 255, 256, 65535 },
    bFreshData |-> { 0, 1 } ]

CodecFrames ==
  { [uData1(255) EXCEPT ![f] = v] :
      <<f, v>> \in UNION { {f} \X FieldValues[f] : f \in DOMAIN FieldValues } }

RecvCodec ==
  \/ Len(rcvd) = 0 /\ RecvFrom(CodecFrames \cup { uData1(255) }, MaxRecvRep)
  \/ Len(rcvd) > 0 /\ RecvFrom({ uData1(0), uData1(255) }, MaxRecvRep)

NextCodec == Loop \/ RecvCodec

SpecCodec == Init /\ [][NextCodec]_vars

\* loop() of the test master (IR_Remote_Sim_Test.ino), one action per test
\* and per transfer.  A button has fallen or not since the last update();
\* the test reads READY_FOR_DATA_PIN last, in the same condition.

\* Mutant: the pin is not read before the batch of button 1.
M218_Mut ==
  /\ mpc = "m218"
  /\ \E fell \in BOOLEAN :
       /\ fell => nPress < MaxPress
       /\ nPress' = IF fell THEN nPress + 1 ELSE nPress
       /\ IF fell
            THEN mpc' = "m238" /\ mBatchAt' = Len(rcvd)
            ELSE mpc' = "m252" /\ UNCHANGED mBatchAt
  /\ UNCHANGED <<shared, current_state, cursors, pin, pc, observers, wire>>

\* lines 218-219: MyButton1.update(); if (read() == LOW && fell() && pin == HIGH)
M218 ==
  /\ mpc = "m218"
  /\ \E fell \in BOOLEAN :
       /\ fell => nPress < MaxPress
       /\ nPress' = IF fell THEN nPress + 1 ELSE nPress
       /\ IF fell /\ pin = "HIGH"
            THEN mpc' = "m238" /\ mBatchAt' = Len(rcvd)
            ELSE mpc' = "m252" /\ UNCHANGED mBatchAt
  /\ UNCHANGED <<shared, current_state, cursors, pin, pc, observers, wire>>

\* lines 238-241: uData1 with bFreshData = 0x00
M238 ==
  /\ mpc = "m238"
  /\ Transfer(uData1(0))
  /\ mpc' = "m242"
  /\ UNCHANGED <<mBatchAt, nPress>>

\* lines 242-245: uData2 with bFreshData = 0x00
M242 ==
  /\ mpc = "m242"
  /\ Transfer(uData2(0))
  /\ mpc' = "m246"
  /\ UNCHANGED <<mBatchAt, nPress>>

\* lines 246-249: uData1 with bFreshData = 0xFF
M246 ==
  /\ mpc = "m246"
  /\ Transfer(uData1(255))
  /\ mpc' = "m252"
  /\ UNCHANGED <<mBatchAt, nPress>>

\* lines 252-253: MyButton2.update(); if (read() == LOW && fell() && pin == HIGH)
M252 ==
  /\ mpc = "m252"
  /\ \E fell \in BOOLEAN :
       /\ fell => nPress < MaxPress
       /\ nPress' = IF fell THEN nPress + 1 ELSE nPress
       /\ IF fell /\ pin = "HIGH"
            THEN mpc' = "m272" /\ mBatchAt' = Len(rcvd)
            ELSE mpc' = "m218" /\ UNCHANGED mBatchAt
  /\ UNCHANGED <<shared, current_state, cursors, pin, pc, observers, wire>>

\* lines 272-274: uData3, which has bFreshData = 0xFF
M272 ==
  /\ mpc = "m272"
  /\ Transfer(uData3)
  /\ mpc' = "m218"
  /\ UNCHANGED <<mBatchAt, nPress>>

MasterLoop == M218 \/ M238 \/ M242 \/ M246 \/ M252 \/ M272

NextSender == Loop \/ MasterLoop

SpecSender == Init /\ [][NextSender]_vars

\* Transfers of any length: besides the master's first frame, uncommitted
\* or committed, a master writes transfers of a length other than
\* MAX_BUFFER (none, one byte, one byte less and one byte more than a
\* frame), every byte 0xFF, at any moment.
BadLengths == { 0, 1, MAX_BUFFER - 1, MAX_BUFFER + 1 }

BadBytes(n) == [x \in 1..n |-> 255]

BadTransfer(n) ==
  /\ receiveEvent(BadBytes(n))
  /\ nBad' = nBad + 1
  /\ UNCHANGED <<rcvd, sent>>

RecvBad ==
  /\ nBad < MaxBad
  /\ \E n \in BadLengths : BadTransfer(n)
  /\ UNCHANGED master

RecvXfer == RecvFrom({ uData1(0), uData1(255) }, MaxRecvRep)

NextXfer == Loop \/ RecvXfer \/ RecvBad

SpecXfer == Init /\ [][NextXfer]_vars

\* ------------------------------------------------------------------------

\* Helpers of the properties

IsPrefix(s, t) == Len(s) <= Len(t) /\ SubSeq(t, 1, Len(s)) = s

\* The transfers stored since loop() last reset the queue, in arrival order.
Window == SubSeq(rcvd, resetAt + 1, Len(rcvd))

\* The encoder calls of a log, and those for queue entry i.
Sends(l) == { k \in DOMAIN l : l[k].op = "send" }

SendsOf(l, i) == { k \in DOMAIN l : l[k].op = "send" /\ l[k].idx = i }

\* The number of queue entries the log has encoder calls for.
FramesPlayed == Cardinality({ log[k].idx : k \in Sends(log) })

\* Encoder calls due for a stored frame.
SendsDue(b) ==
  IF bEncoding(b) \in KnownEncodings
    THEN bButtonRepeats(b) * bPulseTrainRepeats(b) ELSE 0

\* A frame with nonzero bFreshData was received.
CommittedSeen == \E i \in DOMAIN rcvd : bFreshData(rcvd[i]) # 0

\* The 1-based position of the first frame of w with nonzero bFreshData,
\* 0 when there is none.
FirstCommitted(w) ==
  IF \E i \in DOMAIN w : bFreshData(w[i]) # 0
    THEN CHOOSE i \in DOMAIN w :
           /\ bFreshData(w[i]) # 0
           /\ \A j \in 1..(i - 1) : bFreshData(w[j]) = 0
    ELSE 0

OnlyLastCommitted(w) ==
  /\ Len(w) >= 1
  /\ bFreshData(w[Len(w)]) # 0
  /\ \A i \in 1..(Len(w) - 1) : bFreshData(w[i]) = 0

\* The engine is Busy, or Idle again and about to reset the pointer.
Playing == current_state = "eBUSY" \/ pc = "l244"

\* The engine is Busy and past the statements that start a Busy period
\* (until line 203 the frame cursor is still that of the period before).
InPlayback == current_state = "eBUSY" /\ pc \notin {"l202", "l203"}

\* The end-to-end scenario: frame F = uData1 written with bFreshData = 0,
\* then with bFreshData = 0xFF, and nothing else.
E2E_Received == rcvd = << Encode(uData1(0)), Encode(uData1(255)) >>

E2E_Entry(i) ==
  << SendEvent(i, Encode(uData1(0))), DelayEvent(i, 124),
     SendEvent(i, Encode(uData1(0))), DelayEvent(i, 124),
     DelayEvent(i, 400) >>

E2E_Expected == E2E_Entry(0) \o E2E_Entry(1)

E2E_Done ==
  /\ log = E2E_Expected
  /\ Cardinality(Sends(log)) = 4
  /\ current_state = "eIDLE"
  /\ uiDataArrayPointer = 0
  /\ pin = "HIGH"
  /\ pc \in {"l198", "l206", "l241"}

FlagLeadsToBusy == bFreshDataFlag ~> (current_state = "eBUSY")

OnlyExitIsEndOfBatch ==
  [][current_state = "eBUSY" /\ current_state' = "eIDLE" =>
       /\ pc = "l243"
       /\ \A i \in 0..(iDataArrayIndex - 1) :
            Cardinality(SendsOf(log, i)) = SendsDue(uDataArray[i])]_vars

\* ------------------------------------------------------------------------
\* Properties

\* C1: end to end.  Once the master has written frame F with bFreshData = 0
\* and then F with bFreshData = 0xFF (and nothing else), the engine's
\* encoder calls and waits are, in this order: for entry 0 two sendRC6
\* calls each followed by a 124 ms wait, then the 400 ms button wait, then
\* the same for entry 1; never anything else, the pin LOW while Busy; and
\* the engine does get there: it ends Idle with four encoder calls made,
\* the pointer 0 and the pin HIGH.
C1_EndToEnd ==
  /\ [](E2E_Received =>
          /\ IsPrefix(log, E2E_Expected)
          /\ (current_state = "eBUSY" => pin = "LOW")
          /\ (pin = "HIGH" /\ log # << >> => E2E_Done))
  /\ (E2E_Received ~> (E2E_Done \/ ~E2E_Received))

C1_Witness == E2E_Received /\ E2E_Done

\* C2: playback order.  The encoder calls and waits of a Busy period go
\* through the queue entries in increasing index, all events of one entry
\* before the first of the next, no entry with encoder calls due being
\* passed over, and the call for entry i carries the i-th frame stored
\* since the queue was last reset.
C2_PlaybackOrder ==
  /\ \A j, k \in DOMAIN log : j < k => log[j].idx <= log[k].idx
  /\ current_state = "eBUSY" =>
       \A k \in Sends(log) :
         /\ log[k].idx < Len(Window)
         /\ log[k] = SendEvent(log[k].idx, Window[log[k].idx + 1])
         /\ \A i \in 0..log[k].idx :
              SendsOf(log, i) # {} \/ SendsDue(Window[i + 1]) = 0

C2_Witness ==
  /\ current_state = "eBUSY"
  /\ \E j, k \in Sends(log) :
       log[j].idx = 0 /\ log[k].idx = 1 /\ log[j].data # log[k].data

\* C3: commit detection.  When loop() has decided that the batch is over,
\* the number of frames it played is the 1-based position, among the frames
\* stored since the last reset, of the first one with a nonzero bFreshData;
\* frames stored after that one do not change it.
C3_CommitDetection == pc = "l243" => FramesPlayed = FirstCommitted(Window)

\* C4: a batch of up to MAX_SEQUENCES frames.  When n <= MAX_SEQUENCES
\* frames were written to the idle, empty responder, only the last with a
\* nonzero bFreshData, and the engine has played the batch, reset the queue
\* and driven the pin HIGH, it has called the encoder for every one of the
\* n frames.
C4_BatchUpToMax ==
  (/\ Len(rcvd) <= MAX_SEQUENCES
   /\ OnlyLastCommitted(rcvd)
   /\ resetAt = Len(rcvd)
   /\ pin = "HIGH")
  => { log[k].idx : k \in Sends(log) } = 0..(Len(rcvd) - 1)

\* C5: queue capacity.  The entries below the pointer hold, byte for byte
\* and in arrival order, the first frames stored since the last reset; once
\* more than MAX_SEQUENCES frames were stored the pointer stands at
\* MAX_SEQUENCES - 1, so the entries kept for playback are the
\* MAX_SEQUENCES - 1 earliest frames.
C5_QueueCapacity ==
  /\ \A i \in 0..(uiDataArrayPointer - 1) :
       i < Len(Window) /\ uDataArray[i] = Window[i + 1]
  /\ Len(Window) > MAX_SEQUENCES => uiDataArrayPointer = MAX_SEQUENCES - 1

C5_Witness ==
  /\ Len(Window) = MAX_SEQUENCES + 2
  /\ uiDataArrayPointer = MAX_SEQUENCES - 1
  /\ uDataArray[MAX_SEQUENCES - 1] = Window[MAX_SEQUENCES + 2]
  /\ uDataArray[MAX_SEQUENCES - 2] = Window[MAX_SEQUENCES - 1]

\* C6: Busy implies the pin low.  The pin reads HIGH only while the engine
\* is Idle and not inside its end-of-batch statements; every encoder call,
\* every delay and the reset of the pointer happen with the pin LOW.
C6_BusyImpliesLow ==
  /\ current_state = "eBUSY" => pin = "LOW"
  /\ pc \in {"l213", "l230", "l233", "l244", "l245"} => pin = "LOW"
  /\ pin = "HIGH" => current_state = "eIDLE" /\ pc \notin {"l243", "l244", "l245"}

C6_Witness ==
  /\ current_state = "eBUSY" /\ pin = "LOW" /\ pc = "l230"
  /\ Sends(log) # {}

\* C7: the queue is not changed by an inbound frame from the moment the
\* engine is Busy until it is Idle again and has reset the pointer: a
\* transfer received in between leaves the slots and the pointer as they
\* were.
C7_NoMutationWhileBusy ==
  [][Playing /\ rcvd' # rcvd =>
       uDataArray' = uDataArray /\ uiDataArrayPointer' = uiDataArrayPointer]_vars

\* C8: playback trigger.  The engine goes Idle -> Busy only with the flag
\* raised, which takes a received frame with nonzero bFreshData, and with
\* the pin already LOW; the flag is cleared and the frame cursor zeroed
\* before playback starts; while every frame received had bFreshData = 0
\* the engine stays Idle, the pin HIGH, and calls no encoder.
C8_PlaybackTrigger ==
  [][/\ current_state = "eIDLE" /\ current_state' = "eBUSY" =>
          bFreshDataFlag /\ CommittedSeen /\ pin = "LOW"
     /\ bFreshDataFlag' => CommittedSeen'
     /\ pc = "l202" /\ pc' # "l202" => ~bFreshDataFlag' /\ pin' = "LOW"
     /\ pc = "l203" /\ pc' # "l203" =>
          iDataArrayIndex' = 0 /\ pin' = "LOW" /\ current_state' = "eBUSY"
     /\ ~CommittedSeen' =>
          /\ current_state' = "eIDLE" /\ pin' = "HIGH" /\ log' = << >>
          /\ pc' \in {"l198", "l206", "l241"}]_vars

C8_Witness ==
  /\ current_state = "eBUSY" /\ pc = "l206" /\ log = << >>
  /\ iDataArrayIndex = 0 /\ ~bFreshDataFlag /\ pin = "LOW"
  /\ Len(rcvd) >= 2 /\ bFreshData(rcvd[1]) = 0

\* C9, as claimed: a raised flag leads to Busy; the engine leaves Busy only
\* by its end-of-batch statement, with every entry below the frame cursor
\* played in full; and Busy leads to a state that is Idle with the pointer
\* 0 and the pin HIGH, all three at once.
C9_BatchCompletion ==
  /\ FlagLeadsToBusy
  /\ OnlyExitIsEndOfBatch
  /\ (current_state = "eBUSY") ~>
       (current_state = "eIDLE" /\ uiDataArrayPointer = 0 /\ pin = "HIGH")

\* C9, as amended: as above, but Busy leads to Idle with the pointer reset
\* to 0, and to Idle with the pin HIGH; a frame received between the reset
\* (line 244) and the pin write (line 245) makes the pointer 1 by the time
\* the pin is HIGH, so the two need not hold in the same state.
C9_BatchCompletionAmended ==
  /\ FlagLeadsToBusy
  /\ OnlyExitIsEndOfBatch
  /\ (current_state = "eBUSY") ~>
       (current_state = "eIDLE" /\ uiDataArrayPointer = 0)
  /\ (current_state = "eBUSY") ~>
       (current_state = "eIDLE" /\ pin = "HIGH")

\* The engine is back to Idle after playing the last entry the queue can
\* hold, which takes frames received while it was Busy, with the flag
\* raised again meanwhile.
C9_Witness ==
  /\ current_state = "eIDLE" /\ pin = "HIGH" /\ uiDataArrayPointer = 0
  /\ SendsOf(log, MAX_SEQUENCES - 2) # {}
  /\ bFreshDataFlag

\* C10: repeat count.  Every queue entry the engine has finished playing
\* got bButtonRepeats x bPulseTrainRepeats encoder calls (none for an
\* unknown encoding), each with the entry's encoding, data and bit count;
\* the entry being played has not got more than that.
C10_RepeatCount ==
  InPlayback =>
    /\ \A i \in 0..(iDataArrayIndex - 1) :
         Cardinality(SendsOf(log, i)) = SendsDue(uDataArray[i])
    /\ pc = "l237" => Cardinality(SendsOf(log, iDataArrayIndex)) = SendsDue(Slot)
    /\ \A k \in Sends(log) :
         /\ log[k] = SendEvent(log[k].idx, uDataArray[log[k].idx])
         /\ Cardinality(SendsOf(log, log[k].idx)) <= SendsDue(uDataArray[log[k].idx])

\* A frame with 3 pulse trains and 2 button presses has just been played
\* with 6 encoder calls.
C10_Witness ==
  /\ InPlayback /\ pc = "l237"
  /\ bEncoding(Slot) \in KnownEncodings
  /\ bPulseTrainRepeats(Slot) = 3 /\ bButtonRepeats(Slot) = 2
  /\ Cardinality(SendsOf(log, iDataArrayIndex)) = 6

\* The events of a log for queue entry i, in order.
EntryLog(l, i) ==
  LET OfEntry(e) == e.idx = i IN SelectSeq(l, OfEntry)

RECURSIVE Times(_, _)
Times(s, n) == IF n = 0 THEN << >> ELSE s \o Times(s, n - 1)

\* The events due for one pulse train, one button repeat and the whole of
\* queue entry i holding the bytes b.
PulseTrainDue(i, b) ==
  (IF bEncoding(b) \in KnownEncodings THEN << SendEvent(i, b) >> ELSE << >>)
    \o << DelayEvent(i, bDelayBetweenPulseTrainRepeats(b)) >>

ButtonRepeatDue(i, b) ==
  Times(PulseTrainDue(i, b), bPulseTrainRepeats(b))
    \o (IF ui16DelayBetweenButtonRepeats(b) > 0
          THEN << DelayEvent(i, ui16DelayBetweenButtonRepeats(b)) >>
          ELSE << >>)

EntryDue(i, b) == Times(ButtonRepeatDue(i, b), bButtonRepeats(b))

\* C11: repeat delays.  The encoder calls and delays of a queue entry come
\* in this order: within a button repeat every encoder call is followed by
\* one delay of bDelayBetweenPulseTrainRepeats, so that one such delay lies
\* between two consecutive calls; a button repeat ends with one delay of
\* ui16DelayBetweenButtonRepeats when that is above zero and with none when
\* it is zero, so that two consecutive button repeats have exactly one such
\* delay between them.  A finished entry has all of these events, the entry
\* being played a prefix of them.
C11_RepeatDelays ==
  InPlayback =>
    /\ \A i \in 0..(iDataArrayIndex - 1) :
         EntryLog(log, i) = EntryDue(i, uDataArray[i])
    /\ pc = "l237" => EntryLog(log, iDataArrayIndex) = EntryDue(iDataArrayIndex, Slot)
    /\ \A k \in DOMAIN log :
         IsPrefix(EntryLog(log, log[k].idx),
                  EntryDue(log[k].idx, uDataArray[log[k].idx]))

\* A frame with 2 button repeats of 3 pulse trains and a button repeat
\* delay of 400 ms has just been played: 6 encoder calls, 8 delays.
C11_Witness ==
  /\ InPlayback /\ pc = "l237"
  /\ bEncoding(Slot) \in KnownEncodings
  /\ bPulseTrainRepeats(Slot) = 3 /\ bButtonRepeats(Slot) = 2
  /\ ui16DelayBetweenButtonRepeats(Slot) = 400
  /\ Len(EntryLog(log, iDataArrayIndex)) = 14

\* C12: malformed transfer isolation.  A call of receiveEvent with a
\* length other than MAX_BUFFER (0 included) changes no slot, not the
\* pointer, not the flag, not the engine's state, its cursors or its place
\* in loop(), and not the pin.
C12_MalformedIsolation ==
  [][nBad' # nBad =>
       UNCHANGED <<uDataArray, uiDataArrayPointer, bFreshDataFlag,
                   current_state, cursors, pc, pin>>]_vars

\* A transfer of MAX_BUFFER - 1 bytes has been handled while the engine was
\* playing the one frame of the queue.
C12_Witness ==
  /\ nBad = 1 /\ howMany = MAX_BUFFER - 1
  /\ uiDataArrayPointer = 1 /\ uDataArray[0] = Encode(uData1(255))
  /\ current_state = "eBUSY" /\ pc = "l213" /\ pin = "LOW"
  /\ ~bFreshDataFlag

\* C13: draining a malformed transfer.  When receiveEvent returns from a
\* call with a length other than MAX_BUFFER, no byte of the transfer is
\* left unread in the Wire buffer.
C13_MalformedDrained == howMany # MAX_BUFFER => rxAvailable = 0

\* C14: idempotent reset.  After loop() has reset the queue the responder
\* is like a freshly started one: the engine leaves Idle only when a frame
\* with nonzero bFreshData has been received since the queue was last reset
\* (since setup() when it never was), whatever was received before.
C14_IdempotentReset ==
  [][current_state = "eIDLE" /\ current_state' = "eBUSY" =>
       FirstCommitted(Window) # 0]_vars

\* The statements of loop() that read a field of the slot at iDataArrayIndex.
SlotReads == { "l210", "l212", "l213", "l230", "l233" }

\* C15: queue bounds.  The pointer never exceeds the capacity
\* MAX_SEQUENCES; the slot receiveEvent writes next (at the pointer) and
\* the slot a statement of loop() reads (at the frame cursor) are slots
\* 0..MAX_SEQUENCES-1; the frames played, and the frame cursor, never
\* exceed the pointer, and a slot that is read lies below it.
C15_QueueBounds ==
  /\ uiDataArrayPointer \in 0..MAX_SEQUENCES
  /\ uiDataArrayPointer \in DOMAIN uDataArray
  /\ pc \in SlotReads =>
       /\ iDataArrayIndex \in DOMAIN uDataArray
       /\ iDataArrayIndex < uiDataArrayPointer
  /\ InPlayback =>
       /\ iDataArrayIndex <= uiDataArrayPointer
       /\ FramesPlayed <= uiDataArrayPointer

\* More than MAX_SEQUENCES frames were received since the last reset, the
\* pointer stands at the last slot and the entry before it is being played.
C15_Witness ==
  /\ Len(Window) > MAX_SEQUENCES
  /\ uiDataArrayPointer = MAX_SEQUENCES - 1
  /\ pc = "l213" /\ iDataArrayIndex = MAX_SEQUENCES - 2

\* Queue entry i holds an encoding that is none of the five known ones.
UnknownEntry(i) == bEncoding(uDataArray[i]) \notin KnownEncodings

\* The delays of ms milliseconds a log has for queue entry i.
DelaysOf(l, i, ms) == { k \in DOMAIN l : l[k] = DelayEvent(i, ms) }

\* The engine has finished playing queue entry i.
Finished(i) ==
  i < iDataArrayIndex \/ (i = iDataArrayIndex /\ pc = "l237")

C16_Safe ==
  InPlayback =>
    \A i \in 0..iDataArrayIndex :
      Finished(i) /\ UnknownEntry(i) =>
        LET b == uDataArray[i] IN
          /\ SendsOf(log, i) = {}
          /\ Cardinality(DelaysOf(log, i, bDelayBetweenPulseTrainRepeats(b)))
               = bButtonRepeats(b) * bPulseTrainRepeats(b)
          /\ ui16DelayBetweenButtonRepeats(b) > 0 =>
               Cardinality(DelaysOf(log, i, ui16DelayBetweenButtonRepeats(b)))
                 = bButtonRepeats(b)
          /\ \A j \in (i + 1)..iDataArrayIndex :
               Finished(j) =>
                 Cardinality(SendsOf(log, j)) = SendsDue(uDataArray[j])

\* C16: unknown encoding.  For a queue entry whose encoding is none of the
\* five known ones no encoder is called, yet both repeat loops run to their
\* end with every delay made (bButtonRepeats x bPulseTrainRepeats pulse
\* train delays, bButtonRepeats button repeat delays when above zero); the
\* entries after it get the encoder calls due to them; and the engine,
\* playing such an entry, is eventually Idle with the pin HIGH.
C16_UnknownEncoding ==
  /\ []C16_Safe
  /\ (InPlayback /\ pc \in SlotReads /\ UnknownEntry(iDataArrayIndex))
       ~> (current_state = "eIDLE" /\ pin = "HIGH")

\* The engine is Idle again after a batch whose first entry, of unknown
\* encoding with 2 button repeats of 3 pulse trains and a button repeat
\* delay, got 8 delays and no encoder call, and whose second entry got its
\* 2 encoder calls.
C16_Witness ==
  /\ current_state = "eIDLE" /\ pin = "HIGH"
  /\ UnknownEntry(0)
  /\ bPulseTrainRepeats(uDataArray[0]) = 3 /\ bButtonRepeats(uDataArray[0]) = 2
  /\ SendsOf(log, 0) = {} /\ Len(EntryLog(log, 0)) = 8
  /\ Cardinality(SendsOf(log, 1)) = 2

\* The register allocation the master encoded for queue entry i of the
\* current Busy period.
SentFor(i) == sent[resetAt + i + 1]

\* C17: frame codec round trip.  Decoding the MAX_BUFFER bytes of a
\* transfer gives back the register allocation the master encoded, field
\* by field; every stored slot decodes to the register allocation the
\* master encoded for it; and the encoding, data, bit count and delays the
\* engine passes to the encoders and to delay() are those the master
\* encoded for the entry played.
C17_CodecRoundTrip ==
  /\ \A i \in DOMAIN sent : Decode(rcvd[i]) = sent[i]
  /\ \A ra \in CodecFrames : Decode(Encode(ra)) = ra
  /\ InPlayback =>
       /\ \A i \in 0..(uiDataArrayPointer - 1) : Decode(uDataArray[i]) = SentFor(i)
       /\ \A k \in DOMAIN log :
            LET ra == SentFor(log[k].idx) IN
              IF log[k].op = "send"
                THEN /\ log[k].enc = ra.bEncoding
                     /\ log[k].data = ra.ui32Data
                     /\ log[k].bits = ra.bNumberOfBitsInTheData
                ELSE log[k].data \in { ra.bDelayBetweenPulseTrainRepeats,
                                       ra.ui16DelayBetweenButtonRepeats }

\* The engine has called an encoder with the code word 0x7FFFFFFF and
\* made the button repeat delay of a frame encoded with 400 ms.
C17_Witness ==
  /\ InPlayback
  /\ SentFor(0).ui32Data = 2147483647
  /\ \E k \in DOMAIN log : log[k].op = "send" /\ log[k].data = 2147483647
  /\ \E k \in DOMAIN log : log[k] = DelayEvent(0, 400)

\* The register allocations the master has written since it began its last
\* batch, in the state a step leads to.
BatchWritten == SubSeq(sent', mBatchAt' + 1, Len(sent'))

\* The master's discipline with n frames in the batch of button 1: a batch
\* is begun only by a test that reads the pin HIGH; nothing is written
\* outside a batch; a finished batch of button 1 has n frames and one of
\* button 2 has one frame, and only the last frame of a finished batch has
\* nonzero bFreshData.
SenderDiscipline(n) ==
  /\ mpc' \in { "m238", "m272" } /\ mpc' # mpc => pin = "HIGH"
  /\ sent' # sent => mpc \in { "m238", "m242", "m246", "m272" }
  /\ mpc = "m246" /\ mpc' # mpc =>
       /\ Len(BatchWritten) = n
       /\ BatchWritten[Len(BatchWritten) - 1] = uData2(0)
       /\ BatchWritten[Len(BatchWritten)] = uData1(255)
       /\ \A i \in 1..(Len(BatchWritten) - 1) : BatchWritten[i].bFreshData = 0
  /\ mpc = "m272" /\ mpc' # mpc => BatchWritten = << uData3 >>

\* C18: sender discipline.  On a falling edge of button 1 the master writes
\* a batch of two frames, uData2 with bFreshData = 0 and then uData1 with
\* bFreshData = 0xFF, and on a falling edge of button 2 the single frame
\* uData3 with bFreshData = 0xFF; it begins a batch only when it reads the
\* pin HIGH, and only the last frame of a batch has nonzero bFreshData.
C18_SenderDiscipline == [][SenderDiscipline(2)]_vars

\* C18, amended: the batch of button 1 has three frames, uData1 with
\* bFreshData = 0, uData2 with bFreshData = 0 and uData1 again with
\* bFreshData = 0xFF; the rest as above.
C18_SenderDisciplineAmended ==
  [][/\ SenderDiscipline(3)
     /\ mpc = "m246" /\ mpc' # mpc =>
          BatchWritten = << uData1(0), uData2(0), uData1(255) >>]_vars

\* The master has finished a batch of button 1 and then one of button 2,
\* which it began while the engine had not yet made the pin LOW.
C18_Witness ==
  /\ mpc = "m218" /\ mBatchAt = 3
  /\ sent = << uData1(0), uData2(0), uData1(255), uData3 >>

\* C19: sub-frame isolation.  A call of receiveEvent writes no slot but the
\* one at the pointer; a statement of loop() that reads a slot reads one
\* below the pointer, which holds the bytes of one whole transfer; the
\* pointer goes back only at line 244, with the engine no longer Busy; and
\* from the first read of the entry being played to the end of its last
\* repeat no step writes its slot.
C19_SubFrameIsolation ==
  [][/\ rcvd' # rcvd =>
          \A k \in DOMAIN uDataArray :
            k # uiDataArrayPointer => uDataArray'[k] = uDataArray[k]
     /\ pc \in SlotReads =>
          /\ iDataArrayIndex < uiDataArrayPointer
          /\ \E i \in DOMAIN rcvd : rcvd[i] = Slot
          /\ uDataArray'[iDataArrayIndex] = Slot
     /\ uiDataArrayPointer' < uiDataArrayPointer =>
          pc = "l244" /\ current_state = "eIDLE"]_vars

\* The first entry is in its pulse train delay while the queue has been
\* filled and the last slot written over by the frames that followed.
C19_Witness ==
  /\ pc = "l230" /\ iDataArrayIndex = 0
  /\ uiDataArrayPointer = MAX_SEQUENCES - 1
  /\ Len(rcvd) = MAX_SEQUENCES + MaxOver
  /\ uDataArray[MAX_SEQUENCES - 1] = rcvd[Len(rcvd)]

\* C20: no accepted frame is lost.  When loop() resets the pointer, every
\* queue entry below it (every frame for which receiveEvent advanced the
\* pointer) has got the encoder calls its repeat counts make due.
C20_NoFrameLost ==
  [][uiDataArrayPointer' < uiDataArrayPointer =>
       \A i \in 0..(uiDataArrayPointer - 1) :
         Cardinality(SendsOf(log, i)) = SendsDue(uDataArray[i])]_vars

\* C21: no empty Busy period.  Whenever the engine is Idle with the flag
\* raised the pointer is at least 1, so that whenever it goes from Idle to
\* Busy the queue holds a frame, and whenever it goes back from Busy to
\* Idle it has played at least one queue entry.
C21_NoEmptyBusy ==
  [][/\ current_state = "eIDLE" /\ bFreshDataFlag => uiDataArrayPointer >= 1
     /\ current_state = "eIDLE" /\ current_state' = "eBUSY" =>
          uiDataArrayPointer >= 1
     /\ current_state = "eBUSY" /\ current_state' = "eIDLE" =>
          FramesPlayed >= 1]_vars

\* Queue entry i holds a frame with no button repeat, or with button
\* repeats of no pulse train.
ZeroRepeats(i) ==
  bButtonRepeats(uDataArray[i]) = 0 \/ bPulseTrainRepeats(uDataArray[i]) = 0

C22_Safe ==
  InPlayback =>
    /\ \A k \in DOMAIN log :
         LET b == uDataArray[log[k].idx] IN
           /\ bButtonRepeats(b) # 0
           /\ bPulseTrainRepeats(b) = 0 =>
                /\ ui16DelayBetweenButtonRepeats(b) > 0
                /\ log[k] = DelayEvent(log[k].idx, ui16DelayBetweenButtonRepeats(b))
    /\ \A i \in 0..iDataArrayIndex :
         Finished(i) /\ ZeroRepeats(i) =>
           LET b == uDataArray[i] IN
             /\ SendsOf(log, i) = {}
             /\ Len(EntryLog(log, i)) =
                  IF bButtonRepeats(b) > 0 /\ ui16DelayBetweenButtonRepeats(b) > 0
                    THEN bButtonRepeats(b) ELSE 0
             /\ \A j \in (i + 1)..iDataArrayIndex :
                  Finished(j) =>
                    Cardinality(SendsOf(log, j)) = SendsDue(uDataArray[j])

\* C22: zero repeat counts.  A queue entry with bButtonRepeats = 0 gets no
\* encoder call and no delay at all; one with bButtonRepeats = B > 0 and
\* bPulseTrainRepeats = 0 gets no encoder call and no pulse train delay but
\* B button repeat delays when ui16DelayBetweenButtonRepeats is above zero
\* (none when it is zero); the entries after it get the encoder calls due
\* to them; and the engine, playing such an entry, is eventually Idle with
\* the pin HIGH.
C22_ZeroRepeats ==
  /\ []C22_Safe
  /\ (InPlayback /\ pc \in SlotReads /\ ZeroRepeats(iDataArrayIndex))
       ~> (current_state = "eIDLE" /\ pin = "HIGH")

\* The engine is Idle again after a batch whose first entry, with 2 button
\* repeats of no pulse train and a button repeat delay of 400 ms, got two
\* delays of 400 ms and nothing else, and whose second entry got its 2
\* encoder calls.
C22_Witness ==
  /\ current_state = "eIDLE" /\ pin = "HIGH"
  /\ bEncoding(uDataArray[0]) \in KnownEncodings
  /\ bPulseTrainRepeats(uDataArray[0]) = 0 /\ bButtonRepeats(uDataArray[0]) = 2
  /\ EntryLog(log, 0) = << DelayEvent(0, 400), DelayEvent(0, 400) >>
  /\ Cardinality(SendsOf(log, 1)) = 2

====
